---- MODULE Spec2Model ----
(***************************************************************************)
(* Clinic queue back end: appointment and consultation lifecycle, chat     *)
(* messages and the websocket connection registry.                         *)
(*                                                                         *)
(* Records are kept in the order of their insertion; the identifier of a   *)
(* record is its index in its table.  Every request handler that the       *)
(* router exposes is one action; the response of the last handled request  *)
(* is kept in resp so that outcomes can be stated.                         *)
(***************************************************************************)
EXTENDS Integers, Sequences, FiniteSets, TLC

\* ---------------------------------------------------------------- bounds
MaxAppts == 2
MaxCons == 2
MaxMsgs == 2
MaxTime == 2
MaxConns == 3
MaxReqs == 2
MaxTasks == 4

\* ----------------------------------------------------------------- users
\* models/user.py UserRole and the users table (read only for this core)
Patients == {"p1", "p2"}
Doctors == {"d1", "d2"}
Admins == {"adm"}
InactiveDoctors == {"dx"}
Users == Patients \cup Doctors \cup Admins

Role(u) ==
  IF u \in Patients THEN "patient"
  ELSE IF u \in Doctors \cup InactiveDoctors THEN "doctor"
  ELSE "admin"

\* models/appointment.py AppointmentStatus; "null" is a NULL status column
AppointmentStatus == {"waiting", "in_progress", "completed", "cancelled"}
NonTerminal == {"waiting", "in_progress"}
Times == 1..MaxTime
Notes == {"null", "stable"}

\* AppointmentUpdate fields: not sent ("unset" / -1), sent as null
\* ("null" / 0), or sent with a value
StatusInputs == {"unset", "null"} \cup AppointmentStatus
TimeInputs == {-1, 0} \cup Times

VARIABLES appts, cons, msgs, resp, reqs, active, conns, chats,
          wire, tasks, log, replay

vars == <<appts, cons, msgs, resp, reqs, active, conns, chats,
          wire, tasks, log, replay>>
dbvars == <<appts, cons, msgs>>
wsvars == <<active, conns, chats>>
\* wire is fixed by the initial state.  It is TRUE in the specifications that
\* follow the frames on the wire: a task made by asyncio.create_task then
\* waits in tasks until the event loop runs it, and every frame written to a
\* socket is appended to log.  It is FALSE in the specifications about the
\* store: there a created task runs at once and frames are not recorded.
\* replay holds, for a chat handler that has to send the history, the
\* messages it queried and the position of the next one to send.
netvars == <<wire, tasks, log, replay>>

ApptIds == 1..MaxAppts
ConsIds == 1..MaxCons
HasAppt(id) == id \in 1..Len(appts)
HasCons(id) == id \in 1..Len(cons)

Response(op, id, result) == [op |-> op, id |-> id, result |-> result]

\* ------------------------------------------------------ ConnectionManager
\* A registry is the active_connections dict of one ConnectionManager: a
\* function from the registered keys to connections.  conns is the table of
\* the websockets the server has been handed: state is "open" once accepted,
\* "closed" once the server closed it, "gone" once the client left; key is
\* the key its handler registers it under ("" before that), mgr the manager
\* of its endpoint; handler is "loop" while its handler waits in
\* receive_text and "done" after the handler returned.
EmptyRegistry == [k \in {} |-> 0]

Connection(m, k, st, h) == [mgr |-> m, key |-> k, state |-> st, handler |-> h]

\* websocket.close(): closing a socket that is no longer open raises, and
\* every caller ignores that
Closed(cs, c) ==
  IF cs[c].state = "open" THEN [cs EXCEPT ![c].state = "closed"] ELSE cs

connect_NoClose(reg, cs, c, k) ==
  [registry |-> [x \in DOMAIN reg \cup {k} |-> IF x = k THEN c ELSE reg[x]],
   conns |-> [cs EXCEPT ![c].state = "open"]]

\* accept the new socket, close the one registered for the key, register
connect(reg, cs, c, k) ==
  LET accepted == [cs EXCEPT ![c].state = "open"] IN
  [registry |-> [x \in DOMAIN reg \cup {k} |-> IF x = k THEN c ELSE reg[x]],
   conns |-> IF k \in DOMAIN reg THEN Closed(accepted, reg[k]) ELSE accepted]

disconnect_ClearsAll(reg, k) == IF k \in DOMAIN reg THEN EmptyRegistry ELSE reg

\* del active_connections[user_id] if the key is there
disconnect(reg, k) == [x \in DOMAIN reg \ {k} |-> reg[x]]

\* send_text raises unless the socket is open
SendFails(reg, cs, k) == cs[reg[k]].state # "open"

send_personal_message(reg, cs, k) ==
  IF k \in DOMAIN reg /\ SendFails(reg, cs, k) THEN disconnect(reg, k) ELSE reg

\* session keys
PatientKey(u) == "patient_" \o u
DoctorKey(u) == "doctor_" \o u
UserKey(u) == "user_" \o u
ChatKey(cid, u) == "chat_" \o ToString(cid) \o "_" \o u

\* the dispatched send_personal_message calls of one handler, in the order of
\* their dispatch, on the manager m of the handler's module
RECURSIVE Notified(_, _, _)
Notified(act, m, ks) ==
  IF wire \/ ks = <<>> THEN act
  ELSE Notified([act EXCEPT ![m] = send_personal_message(act[m], conns, Head(ks))],
                m, Tail(ks))

\* the tasks made by asyncio.create_task, in the order of their creation.
\* pc is "ready" until the event loop starts the task, "sending" while it
\* waits in send_text on the socket conn, "done" afterwards.
Task(m, k, type, id) ==
  [mgr |-> m, key |-> k, type |-> type, id |-> id, pc |-> "ready", conn |-> 0]

RECURSIVE Created(_, _, _, _, _)
Created(tk, m, ks, type, id) ==
  IF ~wire \/ ks = <<>> THEN tk
  ELSE Created(Append(tk, Task(m, Head(ks), type, id)), m, Tail(ks), type, id)

CanCreate(n) == wire => Len(tasks) + n <= MaxTasks

\* a frame written to the socket conn, which was found under key.  task is
\* the task that wrote it, 0 for a frame a websocket handler wrote itself.
Frame(c, k, type, id, task, st, pos, eta) ==
  [conn |-> c, key |-> k, type |-> type, id |-> id, task |-> task,
   status |-> st, current_position |-> pos, estimated_time |-> eta]

\* ------------------------------------------------------------ book
ExistingAppointment_WaitingOnly(d, t) ==
  \E i \in 1..Len(appts) :
    /\ appts[i].doctor_id = d
    /\ appts[i].scheduled_time = t
    /\ appts[i].status = "waiting"

\* the non-terminal appointment of the doctor at exactly that time, if any
ExistingAppointment(d, t) ==
  \E i \in 1..Len(appts) :
    /\ appts[i].doctor_id = d
    /\ appts[i].scheduled_time = t
    /\ appts[i].status \in NonTerminal

CreateAppointmentResult(u, d, t) ==
  IF Role(u) # "patient" THEN "Forbidden"
  ELSE IF d \notin Doctors THEN "NotFound"
  ELSE IF ExistingAppointment(d, t) THEN "Conflict"
  ELSE "ok"

NewAppointment(u, d, t) ==
  [patient_id |-> u, doctor_id |-> d, scheduled_time |-> t, status |-> "waiting"]

create_appointment_NotifiesPatient(u, d, t) ==
  LET r == CreateAppointmentResult(u, d, t) IN
  /\ r = "ok" => Len(appts) < MaxAppts /\ CanCreate(1)
  /\ appts' = IF r = "ok" THEN Append(appts, NewAppointment(u, d, t)) ELSE appts
  /\ resp' = Response("book", IF r = "ok" THEN Len(appts) + 1 ELSE 0, r)
  /\ active' = IF r = "ok" THEN Notified(active, "appointments", <<PatientKey(u)>>)
               ELSE active
  /\ tasks' = IF r = "ok"
              THEN Created(tasks, "appointments", <<PatientKey(u)>>,
                           "new_appointment", Len(appts) + 1)
              ELSE tasks
  /\ UNCHANGED <<cons, msgs, reqs, conns, chats, wire, log, replay>>

create_appointment(u, d, t) ==
  LET r == CreateAppointmentResult(u, d, t) IN
  /\ r = "ok" => Len(appts) < MaxAppts /\ CanCreate(1)
  /\ appts' = IF r = "ok" THEN Append(appts, NewAppointment(u, d, t)) ELSE appts
  /\ resp' = Response("book", IF r = "ok" THEN Len(appts) + 1 ELSE 0, r)
  /\ active' = IF r = "ok" THEN Notified(active, "appointments", <<DoctorKey(d)>>)
               ELSE active
  /\ tasks' = IF r = "ok"
              THEN Created(tasks, "appointments", <<DoctorKey(d)>>,
                           "new_appointment", Len(appts) + 1)
              ELSE tasks
  /\ UNCHANGED <<cons, msgs, reqs, conns, chats, wire, log, replay>>

\* ---------------------------------------------------------- cancel
\* the patient's key, then the doctor's
ParticipantKeys(a) == <<PatientKey(a.patient_id), DoctorKey(a.doctor_id)>>

CancelForbidden(u, a) ==
  \/ (Role(u) = "patient" /\ a.patient_id # u)
  \/ (Role(u) = "doctor" /\ a.doctor_id # u /\ Role(u) # "admin")

CancelResult_AnyStatus(u, id) ==
  IF ~HasAppt(id) THEN "NotFound"
  ELSE IF CancelForbidden(u, appts[id]) THEN "Forbidden"
  ELSE "ok"

\* 400 when the status is not waiting; the detail string reads status.value,
\* which raises on a NULL status (500)
CancelResult(u, id) ==
  IF ~HasAppt(id) THEN "NotFound"
  ELSE IF CancelForbidden(u, appts[id]) THEN "Forbidden"
  ELSE IF appts[id].status = "null" THEN "ServerError"
  ELSE IF appts[id].status # "waiting" THEN "InvalidState"
  ELSE "ok"

cancel_appointment_WritesBeforeCheck(u, id) ==
  LET r == CancelResult(u, id) IN
  /\ r = "ok" => CanCreate(2)
  /\ appts' = IF r \in {"ok", "InvalidState"}
              THEN [appts EXCEPT ![id].status = "cancelled"] ELSE appts
  /\ resp' = Response("cancel", id, r)
  /\ active' = IF r = "ok" THEN Notified(active, "appointments", ParticipantKeys(appts[id]))
               ELSE active
  /\ tasks' = IF r = "ok"
              THEN Created(tasks, "appointments", ParticipantKeys(appts[id]),
                           "appointment_cancelled", id)
              ELSE tasks
  /\ UNCHANGED <<cons, msgs, reqs, conns, chats, wire, log, replay>>

cancel_appointment(u, id) ==
  LET r == CancelResult(u, id) IN
  /\ r = "ok" => CanCreate(2)
  /\ appts' = IF r = "ok" THEN [appts EXCEPT ![id].status = "cancelled"] ELSE appts
  /\ resp' = Response("cancel", id, r)
  /\ active' = IF r = "ok" THEN Notified(active, "appointments", ParticipantKeys(appts[id]))
               ELSE active
  /\ tasks' = IF r = "ok"
              THEN Created(tasks, "appointments", ParticipantKeys(appts[id]),
                           "appointment_cancelled", id)
              ELSE tasks
  /\ UNCHANGED <<cons, msgs, reqs, conns, chats, wire, log, replay>>

\* ---------------------------------------------------------- update (PUT)
UpdateResult(u, id, st, tm) ==
  IF ~HasAppt(id) THEN "NotFound"
  ELSE IF Role(u) = "patient" /\ appts[id].patient_id # u THEN "Forbidden"
  ELSE IF Role(u) = "patient" /\ st \in AppointmentStatus /\ st # "cancelled"
    THEN "Forbidden"
  ELSE IF tm = 0 THEN "ServerError"
  ELSE "ok"

\* setattr for every field that was sent, a sent null included
UpdatedAppointment(a, st, tm) ==
  [a EXCEPT !.status = IF st = "unset" THEN @ ELSE st,
            !.scheduled_time = IF tm = -1 THEN @ ELSE tm]

update_appointment(u, id, st, tm) ==
  LET r == UpdateResult(u, id, st, tm) IN
  /\ (r = "ok" /\ st \in AppointmentStatus) => CanCreate(2)
  /\ appts' = IF r = "ok"
              THEN [appts EXCEPT ![id] = UpdatedAppointment(appts[id], st, tm)]
              ELSE appts
  /\ resp' = Response("update", id, r)
  /\ active' = IF r = "ok" /\ st \in AppointmentStatus
               THEN Notified(active, "appointments", ParticipantKeys(appts[id]))
               ELSE active
  /\ tasks' = IF r = "ok" /\ st \in AppointmentStatus
              THEN Created(tasks, "appointments", ParticipantKeys(appts[id]),
                           "appointment_status_update", id)
              ELSE tasks
  /\ UNCHANGED <<cons, msgs, reqs, conns, chats, wire, log, replay>>

\* ------------------------------------------------------ consultation start
ExistingConsultation(id) ==
  \E c \in 1..Len(cons) : cons[c].appointment_id = id

\* the checks made on the loaded appointment (lines 43-64)
StartApptCheck(u, id) ==
  IF ~HasAppt(id) THEN "NotFound"
  ELSE IF u # appts[id].patient_id /\ u # appts[id].doctor_id THEN "Forbidden"
  ELSE IF appts[id].status = "null" THEN "ServerError"
  ELSE IF appts[id].status # "waiting" THEN "InvalidState"
  ELSE "ok"

StartResult_NoStateChecks(u, id) ==
  IF ~HasAppt(id) THEN "NotFound"
  ELSE IF u # appts[id].patient_id /\ u # appts[id].doctor_id THEN "Forbidden"
  ELSE "ok"

StartResult(u, id) ==
  IF StartApptCheck(u, id) # "ok" THEN StartApptCheck(u, id)
  ELSE IF ExistingConsultation(id) THEN "Conflict"
  ELSE "ok"

\* the consultation type and the timestamps are carried into responses and
\* payloads only; no handler reads them back
NewConsultation(id) ==
  [appointment_id |-> id, ended_at |-> FALSE, notes |-> "null"]

start_consultation(u, id) ==
  LET r == StartResult(u, id) IN
  /\ r = "ok" => Len(cons) < MaxCons /\ CanCreate(2)
  /\ appts' = IF r = "ok" THEN [appts EXCEPT ![id].status = "in_progress"] ELSE appts
  /\ cons' = IF r = "ok" THEN Append(cons, NewConsultation(id)) ELSE cons
  /\ resp' = Response("start", id, r)
  /\ active' = IF r = "ok" THEN Notified(active, "consultations", ParticipantKeys(appts[id]))
               ELSE active
  /\ tasks' = IF r = "ok"
              THEN Created(tasks, "consultations", ParticipantKeys(appts[id]),
                           "consultation_started", Len(cons) + 1)
              ELSE tasks
  /\ UNCHANGED <<msgs, reqs, conns, chats, wire, log, replay>>

\* -------------------------------------------------------- consultation end
EndResult_RoleOnly(u, cid) ==
  IF Role(u) # "doctor" THEN "Forbidden"
  ELSE IF ~HasCons(cid) THEN "NotFound"
  ELSE IF cons[cid].ended_at THEN "InvalidState"
  ELSE "ok"

\* get_current_active_doctor refuses every other role before the handler
\* runs; then 404, the 403 for another doctor, and the 400 once ended
EndResult(u, cid) ==
  IF Role(u) # "doctor" THEN "Forbidden"
  ELSE IF ~HasCons(cid) THEN "NotFound"
  ELSE IF u # appts[cons[cid].appointment_id].doctor_id THEN "Forbidden"
  ELSE IF cons[cid].ended_at THEN "InvalidState"
  ELSE "ok"

end_consultation_NotifiesBoth(u, cid, n) ==
  LET r == EndResult(u, cid) IN
  /\ r = "ok" => CanCreate(2)
  /\ cons' = IF r = "ok"
             THEN [cons EXCEPT ![cid].ended_at = TRUE, ![cid].notes = n]
             ELSE cons
  /\ appts' = IF r = "ok"
              THEN [appts EXCEPT ![cons[cid].appointment_id].status = "completed"]
              ELSE appts
  /\ resp' = Response("end", cid, r)
  /\ active' = IF r = "ok"
               THEN Notified(active, "consultations",
                             ParticipantKeys(appts[cons[cid].appointment_id]))
               ELSE active
  /\ tasks' = IF r = "ok"
              THEN Created(tasks, "consultations",
                           ParticipantKeys(appts[cons[cid].appointment_id]),
                           "consultation_ended", cid)
              ELSE tasks
  /\ UNCHANGED <<msgs, reqs, conns, chats, wire, log, replay>>

end_consultation(u, cid, n) ==
  LET r == EndResult(u, cid) IN
  /\ r = "ok" => CanCreate(1)
  /\ cons' = IF r = "ok"
             THEN [cons EXCEPT ![cid].ended_at = TRUE, ![cid].notes = n]
             ELSE cons
  /\ appts' = IF r = "ok"
              THEN [appts EXCEPT ![cons[cid].appointment_id].status = "completed"]
              ELSE appts
  /\ resp' = Response("end", cid, r)
  /\ active' = IF r = "ok"
               THEN Notified(active, "consultations",
                             <<PatientKey(appts[cons[cid].appointment_id].patient_id)>>)
               ELSE active
  /\ tasks' = IF r = "ok"
              THEN Created(tasks, "consultations",
                           <<PatientKey(appts[cons[cid].appointment_id].patient_id)>>,
                           "consultation_ended", cid)
              ELSE tasks
  /\ UNCHANGED <<msgs, reqs, conns, chats, wire, log, replay>>

\* ------------------------------------------------- requests that overlap
\* A handler reads, checks what it read, and then writes and commits.  The
\* commit is an UPDATE by primary key (and an INSERT): it succeeds whatever
\* another request committed in between.  reqs holds the requests that have
\* read; result is "pending" until the request has answered.
Request(op, u, id, pc, result) ==
  [op |-> op, user |-> u, id |-> id, pc |-> pc, result |-> result]

cancel_read_Dispatches(u, id) ==
  LET r == CancelResult(u, id) IN
  /\ Len(reqs) < MaxReqs
  /\ r = "ok" => CanCreate(2)
  /\ reqs' = Append(reqs, IF r = "ok" THEN Request("cancel", u, id, "commit", "pending")
                          ELSE Request("cancel", u, id, "done", r))
  /\ tasks' = IF r = "ok"
              THEN Created(tasks, "appointments", ParticipantKeys(appts[id]),
                           "appointment_cancelled", id)
              ELSE tasks
  /\ UNCHANGED <<dbvars, resp, wsvars, wire, log, replay>>

\* cancel_appointment, lines 226-248: load the appointment and check it
cancel_read(u, id) ==
  LET r == CancelResult(u, id) IN
  /\ Len(reqs) < MaxReqs
  /\ reqs' = Append(reqs, IF r = "ok" THEN Request("cancel", u, id, "commit", "pending")
                          ELSE Request("cancel", u, id, "done", r))
  /\ UNCHANGED <<dbvars, resp, wsvars, netvars>>

\* cancel_appointment, lines 250-253: set the status and commit
cancel_commit(i) ==
  /\ i \in 1..Len(reqs)
  /\ reqs[i].op = "cancel" /\ reqs[i].pc = "commit"
  /\ appts' = [appts EXCEPT ![reqs[i].id].status = "cancelled"]
  /\ reqs' = [reqs EXCEPT ![i].pc = "done", ![i].result = "ok"]
  /\ active' = Notified(active, "appointments", ParticipantKeys(appts[reqs[i].id]))
  /\ CanCreate(2)
  /\ tasks' = Created(tasks, "appointments", ParticipantKeys(appts[reqs[i].id]),
                      "appointment_cancelled", reqs[i].id)
  /\ UNCHANGED <<cons, msgs, resp, conns, chats, wire, log, replay>>

\* a book request that has read: the doctor and the time it asked for
BookRequest(u, d, t, pc, result) ==
  [op |-> "book", user |-> u, id |-> 0, doctor |-> d, time |-> t, pc |-> pc,
   result |-> result]

\* create_appointment, lines 34-57: look the doctor up and query the
\* doctor's non-terminal appointment at that time
book_read(u, d, t) ==
  LET r == CreateAppointmentResult(u, d, t) IN
  /\ Len(reqs) < MaxReqs
  /\ reqs' = Append(reqs, IF r = "ok" THEN BookRequest(u, d, t, "commit", "pending")
                          ELSE BookRequest(u, d, t, "done", r))
  /\ UNCHANGED <<dbvars, resp, wsvars, netvars>>

\* create_appointment, lines 59-82: insert the appointment, commit and
\* notify the doctor.  The table has no unique constraint on the doctor and
\* the time (models/appointment.py 17-26), so the insert succeeds.
book_commit(i) ==
  /\ i \in 1..Len(reqs)
  /\ reqs[i].op = "book" /\ reqs[i].pc = "commit"
  /\ Len(appts) < MaxAppts /\ CanCreate(1)
  /\ appts' = Append(appts, NewAppointment(reqs[i].user, reqs[i].doctor, reqs[i].time))
  /\ reqs' = [reqs EXCEPT ![i].pc = "done", ![i].result = "ok", ![i].id = Len(appts) + 1]
  /\ active' = Notified(active, "appointments", <<DoctorKey(reqs[i].doctor)>>)
  /\ tasks' = Created(tasks, "appointments", <<DoctorKey(reqs[i].doctor)>>,
                      "new_appointment", Len(appts) + 1)
  /\ UNCHANGED <<cons, msgs, resp, conns, chats, wire, log, replay>>

\* start_consultation, lines 41-64: load the appointment and check it
start_read(u, id) ==
  LET r == StartApptCheck(u, id) IN
  /\ Len(reqs) < MaxReqs
  /\ reqs' = Append(reqs, IF r = "ok" THEN Request("start", u, id, "read_cons", "pending")
                          ELSE Request("start", u, id, "done", r))
  /\ UNCHANGED <<dbvars, resp, wsvars, netvars>>

\* start_consultation, lines 66-75: look for a consultation of the appointment
start_read_consultation(i) ==
  /\ i \in 1..Len(reqs)
  /\ reqs[i].op = "start" /\ reqs[i].pc = "read_cons"
  /\ reqs' = IF ExistingConsultation(reqs[i].id)
             THEN [reqs EXCEPT ![i].pc = "done", ![i].result = "Conflict"]
             ELSE [reqs EXCEPT ![i].pc = "commit"]
  /\ UNCHANGED <<dbvars, resp, wsvars, netvars>>

\* start_consultation, lines 77-88: set the status, insert and commit
start_commit(i) ==
  /\ i \in 1..Len(reqs)
  /\ reqs[i].op = "start" /\ reqs[i].pc = "commit"
  /\ Len(cons) < MaxCons
  /\ appts' = [appts EXCEPT ![reqs[i].id].status = "in_progress"]
  /\ cons' = Append(cons, NewConsultation(reqs[i].id))
  /\ reqs' = [reqs EXCEPT ![i].pc = "done", ![i].result = "ok"]
  /\ active' = Notified(active, "consultations", ParticipantKeys(appts[reqs[i].id]))
  /\ CanCreate(2)
  /\ tasks' = Created(tasks, "consultations", ParticipantKeys(appts[reqs[i].id]),
                      "consultation_started", Len(cons) + 1)
  /\ UNCHANGED <<msgs, resp, conns, chats, wire, log, replay>>

\* an end request carries the notes of its body
EndRequest(u, cid, n, pc, result) ==
  [op |-> "end", user |-> u, id |-> cid, pc |-> pc, result |-> result, notes |-> n]

\* end_consultation, lines 126-155: load the consultation and its
\* appointment and check them
end_read(u, cid, n) ==
  LET r == EndResult(u, cid) IN
  /\ Len(reqs) < MaxReqs
  /\ reqs' = Append(reqs, IF r = "ok" THEN EndRequest(u, cid, n, "commit", "pending")
                          ELSE EndRequest(u, cid, n, "done", r))
  /\ UNCHANGED <<dbvars, resp, wsvars, netvars>>

\* end_consultation, lines 157-179: assign ended_at, the notes and the status
\* of the appointment, commit and notify the patient
end_commit(i) ==
  /\ i \in 1..Len(reqs)
  /\ reqs[i].op = "end" /\ reqs[i].pc = "commit"
  /\ cons' = [cons EXCEPT ![reqs[i].id].ended_at = TRUE,
                          ![reqs[i].id].notes = reqs[i].notes]
  /\ appts' = [appts EXCEPT ![cons[reqs[i].id].appointment_id].status = "completed"]
  /\ reqs' = [reqs EXCEPT ![i].pc = "done", ![i].result = "ok"]
  /\ active' = Notified(active, "consultations",
                        <<PatientKey(appts[cons[reqs[i].id].appointment_id].patient_id)>>)
  /\ CanCreate(1)
  /\ tasks' = Created(tasks, "consultations",
                      <<PatientKey(appts[cons[reqs[i].id].appointment_id].patient_id)>>,
                      "consultation_ended", reqs[i].id)
  /\ UNCHANGED <<msgs, resp, conns, chats, wire, log, replay>>

\* ------------------------------------------------------- create_message
Message(cid, u) == [consultation_id |-> cid, sender_id |-> u]

MessageResult(u, cid) ==
  IF ~HasCons(cid) THEN "NotFound"
  ELSE IF u # appts[cons[cid].appointment_id].patient_id
          /\ u # appts[cons[cid].appointment_id].doctor_id THEN "Forbidden"
  ELSE IF cons[cid].ended_at THEN "InvalidState"
  ELSE "ok"

\* the participant who did not send
Recipient(a, u) == IF u = a.doctor_id THEN a.patient_id ELSE a.doctor_id

create_message(u, cid) ==
  LET r == MessageResult(u, cid) IN
  /\ r = "ok" => Len(msgs) < MaxMsgs /\ CanCreate(1)
  /\ msgs' = IF r = "ok" THEN Append(msgs, Message(cid, u)) ELSE msgs
  /\ resp' = Response("message", cid, r)
  /\ active' = IF r = "ok"
               THEN Notified(active, "consultations",
                             <<UserKey(Recipient(appts[cons[cid].appointment_id], u))>>)
               ELSE active
  /\ tasks' = IF r = "ok"
              THEN Created(tasks, "consultations",
                           <<UserKey(Recipient(appts[cons[cid].appointment_id], u))>>,
                           "new_message", Len(msgs) + 1)
              ELSE tasks
  /\ UNCHANGED <<appts, cons, reqs, conns, chats, wire, log, replay>>

\* ---------------------------------------------------- message timestamps
\* create_message with the timestamp column followed.  The column default is
\* datetime.utcnow, read when the row is inserted (models/consultation.py
\* 39): a reading is never earlier than a stored one, and two readings may
\* be equal.
Stamps == {msgs[i].timestamp : i \in 1..Len(msgs)}

Now == {t \in Times : \A x \in Stamps : t >= x}

StampedMessage(cid, u, ts) ==
  [consultation_id |-> cid, sender_id |-> u, timestamp |-> ts]

create_message_at(u, cid, ts) ==
  LET r == MessageResult(u, cid) IN
  /\ ts \in Now
  /\ r = "ok" => Len(msgs) < MaxMsgs /\ CanCreate(1)
  /\ msgs' = IF r = "ok" THEN Append(msgs, StampedMessage(cid, u, ts)) ELSE msgs
  /\ resp' = Response("message", cid, r)
  /\ active' = IF r = "ok"
               THEN Notified(active, "consultations",
                             <<UserKey(Recipient(appts[cons[cid].appointment_id], u))>>)
               ELSE active
  /\ tasks' = IF r = "ok"
              THEN Created(tasks, "consultations",
                           <<UserKey(Recipient(appts[cons[cid].appointment_id], u))>>,
                           "new_message", Len(msgs) + 1)
              ELSE tasks
  /\ UNCHANGED <<appts, cons, reqs, conns, chats, wire, log, replay>>

MessagesOf(cid) == {i \in 1..Len(msgs) : msgs[i].consultation_id = cid}

\* order_by(Message.timestamp): every order of the rows that is sorted by the
\* timestamp; the order of rows with equal timestamps is not fixed
OrderedByTimestamp(S) ==
  {s \in [1..Cardinality(S) -> S] :
     /\ \A a, b \in 1..Cardinality(S) : a # b => s[a] # s[b]
     /\ \A a, b \in 1..Cardinality(S) :
          a < b => msgs[s[a]].timestamp <= msgs[s[b]].timestamp}

GetMessagesResult(u, cid) ==
  IF ~HasCons(cid) THEN "NotFound"
  ELSE IF u # appts[cons[cid].appointment_id].patient_id
          /\ u # appts[cons[cid].appointment_id].doctor_id
          /\ Role(u) # "admin" THEN "Forbidden"
  ELSE "ok"

\* GET /consultations/{id}/messages: rows holds the returned messages
get_consultation_messages(u, cid) ==
  LET r == GetMessagesResult(u, cid) IN
  /\ \E s \in (IF r = "ok" THEN OrderedByTimestamp(MessagesOf(cid)) ELSE {<<>>}) :
       resp' = [op |-> "messages", id |-> cid, result |-> r, rows |-> s]
  /\ UNCHANGED <<dbvars, reqs, wsvars, netvars>>

\* ------------------------------------------------------- queue estimator
MinutesPerAppointment == 15

position_CountsSameTime(a) ==
  Cardinality({j \in 1..Len(appts) :
                 /\ appts[j].doctor_id = a.doctor_id
                 /\ appts[j].scheduled_time <= a.scheduled_time
                 /\ appts[j].status = "waiting"}) + 1

\* the count made for the snapshot (appointments.py 301-305): the waiting
\* appointments of the same doctor scheduled strictly earlier, plus one
position(a) ==
  Cardinality({j \in 1..Len(appts) :
                 /\ appts[j].doctor_id = a.doctor_id
                 /\ appts[j].scheduled_time < a.scheduled_time
                 /\ appts[j].status = "waiting"}) + 1

estimated_time(pos) == pos * MinutesPerAppointment

\* AppointmentService: the same count for a stored appointment
get_queue_position(id) ==
  Cardinality({j \in 1..Len(appts) :
                 /\ appts[j].doctor_id = appts[id].doctor_id
                 /\ appts[j].scheduled_time < appts[id].scheduled_time
                 /\ appts[j].status = "waiting"}) + 1

get_estimated_wait_time(id) == get_queue_position(id) * MinutesPerAppointment

\* ------------------------------------------------------- queue websocket
\* two time slots make one calendar day
Day(t) == (t + 1) \div 2
Days == 1..(Day(MaxTime) + 1)

PatientSnapshotIds(uid) ==
  {i \in 1..Len(appts) : appts[i].patient_id = uid /\ appts[i].status \in NonTerminal}

DoctorSnapshotIds(uid, today) ==
  {i \in 1..Len(appts) :
     /\ appts[i].doctor_id = uid
     /\ Day(appts[i].scheduled_time) = today
     /\ appts[i].status \in NonTerminal}

\* order_by(scheduled_time): every order of the rows that is sorted by the
\* time; the order of rows with equal times is not fixed
Ordered(S) ==
  {s \in [1..Cardinality(S) -> S] :
     /\ \A a, b \in 1..Cardinality(S) : a # b => s[a] # s[b]
     /\ \A a, b \in 1..Cardinality(S) :
          a < b => appts[s[a]].scheduled_time <= appts[s[b]].scheduled_time}

PatientFrame(c, uid, i) ==
  Frame(c, uid, "appointment_update", i, 0, appts[i].status,
        position(appts[i]), estimated_time(position(appts[i])))

DoctorFrame(c, uid, i) ==
  Frame(c, uid, "appointment_update", i, 0, appts[i].status, 0, 0)

\* the frames of the initial snapshot (lines 291-339) for the socket c
Snapshots(c, uid, today) ==
  IF uid \in Patients
  THEN {[n \in DOMAIN s |-> PatientFrame(c, uid, s[n])] :
          s \in Ordered(PatientSnapshotIds(uid))}
  ELSE IF uid \in Doctors \cup InactiveDoctors
  THEN {[n \in DOMAIN s |-> DoctorFrame(c, uid, s[n])] :
          s \in Ordered(DoctorSnapshotIds(uid, today))}
  ELSE {<<>>}

\* websocket_endpoint up to its receive loop: the socket is registered under
\* the path parameter; the snapshot is written to the socket just registered
websocket_endpoint(uid) ==
  LET c == Len(conns) + 1
      r == connect(active.appointments,
                   Append(conns, Connection("appointments", uid, "new", "loop")),
                   c, uid)
  IN
  /\ Len(conns) < MaxConns
  /\ conns' = r.conns
  /\ active' = [active EXCEPT !.appointments = r.registry]
  /\ \E today \in Days : \E fr \in Snapshots(c, uid, today) :
       log' = IF wire THEN log \o fr ELSE log
  /\ UNCHANGED <<dbvars, resp, reqs, chats, wire, tasks, replay>>

\* The same handler when other coroutines run at its await points.
\* connect, line 16: the socket is accepted
connect_accept(uid) ==
  /\ Len(conns) < MaxConns
  /\ conns' = Append(conns, Connection("appointments", uid, "open", "accepted"))
  /\ UNCHANGED <<dbvars, resp, reqs, active, chats, netvars>>

\* connect, lines 18-24: without a registered socket the key is set at once;
\* otherwise close() is called on the registered socket and awaited
connect_close(c) ==
  /\ c \in 1..Len(conns)
  /\ conns[c].handler = "accepted"
  /\ LET reg == active[conns[c].mgr]
         k == conns[c].key
     IN IF k \in DOMAIN reg
        THEN /\ conns' = [Closed(conns, reg[k]) EXCEPT ![c].handler = "closing"]
             /\ active' = active
        ELSE /\ conns' = [conns EXCEPT ![c].handler = "loop"]
             /\ active' = [active EXCEPT ![conns[c].mgr] =
                             [x \in DOMAIN reg \cup {k} |-> IF x = k THEN c ELSE reg[x]]]
  /\ UNCHANGED <<dbvars, resp, reqs, chats, netvars>>

\* connect, line 24, after the awaited close() returned
connect_register(c) ==
  /\ c \in 1..Len(conns)
  /\ conns[c].handler = "closing"
  /\ LET reg == active[conns[c].mgr]
         k == conns[c].key
     IN active' = [active EXCEPT ![conns[c].mgr] =
                     [x \in DOMAIN reg \cup {k} |-> IF x = k THEN c ELSE reg[x]]]
  /\ conns' = [conns EXCEPT ![c].handler = "loop"]
  /\ UNCHANGED <<dbvars, resp, reqs, chats, netvars>>

\* the client of an open socket leaves; the handler has not run yet
client_gone(c) ==
  /\ c \in 1..Len(conns)
  /\ conns[c].state = "open"
  /\ conns' = [conns EXCEPT ![c].state = "gone"]
  /\ UNCHANGED <<dbvars, resp, reqs, active, chats, netvars>>

\* a handler waiting in receive_text finds its socket gone or closed.  After
\* the client left, receive_text raises WebSocketDisconnect; on a socket the
\* server closed it raises WebSocketDisconnect or another error, depending
\* on the server.  Both handlers unregister their key on WebSocketDisconnect
\* only; the chat handler closes the socket on any other error.
handler_exit(c, exc) ==
  /\ c \in 1..Len(conns)
  /\ conns[c].handler = "loop"
  /\ conns[c].state # "open"
  /\ conns[c].state = "gone" => exc = "WebSocketDisconnect"
  /\ conns' = [conns EXCEPT ![c].handler = "done"]
  /\ active' = IF exc = "WebSocketDisconnect"
               THEN [active EXCEPT ![conns[c].mgr] = disconnect(@, conns[c].key)]
               ELSE active
  /\ UNCHANGED <<dbvars, resp, reqs, chats, netvars>>

\* -------------------------------------------------------- chat websocket
ChatAuth_AnyUser(tok, cid) ==
  IF tok \notin Users \cup InactiveDoctors THEN "error"
  ELSE IF ~HasCons(cid) THEN "refused"
  ELSE "ok"

\* the first text is the token: tok is the user it names, or "bad"
ChatAuth(tok, cid) ==
  IF tok \notin Users \cup InactiveDoctors THEN "error"
  ELSE IF ~HasCons(cid) THEN "refused"
  ELSE IF tok # appts[cons[cid].appointment_id].patient_id
          /\ tok # appts[cons[cid].appointment_id].doctor_id THEN "refused"
  ELSE "ok"

\* the messages of the consultation in the order of their timestamps (lines
\* 418-420); a timestamp is taken when the message is inserted, so this is
\* the order of insertion
History(cid) ==
  SelectSeq([i \in 1..Len(msgs) |-> i], LAMBDA i : msgs[i].consultation_id = cid)

\* chat_websocket up to its receive loop (lines 381-434).  The socket is
\* accepted before the token is read, and accepting it once more in connect
\* is taken to change nothing.  A refused or failed authentication closes
\* the socket (1008 / 1011) and the handler returns.
\* When the frames are followed, the queried messages are kept in
\* replay[c].history: the first is written to the socket just registered
\* before the handler waits for the first time, and the handler is left in
\* "replay" if more are to be sent.
chat_open(tok, cid) ==
  LET c == Len(conns) + 1
      a == ChatAuth(tok, cid)
      replays == a = "ok" /\ wire /\ History(cid) # <<>>
      h == IF replays /\ Len(History(cid)) > 1 THEN "replay" ELSE "loop"
      r == connect(active.consultations,
                   Append(conns, Connection("consultations", ChatKey(cid, tok), "open", h)),
                   c, ChatKey(cid, tok))
  IN
  /\ Len(conns) < MaxConns
  /\ conns' = IF a = "ok" THEN r.conns
              ELSE Append(conns, Connection("consultations", "", "closed", "done"))
  /\ active' = IF a = "ok" THEN [active EXCEPT !.consultations = r.registry] ELSE active
  /\ chats' = IF a = "ok" THEN chats \cup {[conn |-> c, consultation_id |-> cid, user |-> tok]}
              ELSE chats
  /\ replay' = IF replays
               THEN [x \in DOMAIN replay \cup {c} |->
                       IF x = c THEN [history |-> History(cid), next |-> 2] ELSE replay[x]]
               ELSE replay
  /\ log' = IF replays
            THEN Append(log, Frame(c, ChatKey(cid, tok), "history_message",
                                   History(cid)[1], 0, "", 0, 0))
            ELSE log
  /\ UNCHANGED <<dbvars, resp, reqs, wire, tasks>>

\* a later turn of the history loop (lines 422-434), after the handler
\* waited in the send before: the next message is sent with
\* send_personal_message to the handler's key
chat_replay(c) ==
  /\ c \in DOMAIN replay
  /\ conns[c].handler = "replay"
  /\ LET k == conns[c].key
         reg == active.consultations
         m == replay[c].history[replay[c].next]
     IN /\ log' = IF k \in DOMAIN reg /\ ~SendFails(reg, conns, k)
                  THEN Append(log, Frame(reg[k], k, "history_message", m, 0, "", 0, 0))
                  ELSE log
        /\ active' = [active EXCEPT !.consultations = send_personal_message(reg, conns, k)]
  /\ replay' = [replay EXCEPT ![c].next = @ + 1]
  /\ conns' = IF replay[c].next = Len(replay[c].history)
              THEN [conns EXCEPT ![c].handler = "loop"]
              ELSE conns
  /\ UNCHANGED <<dbvars, resp, reqs, chats, wire, tasks>>

\* one turn of the receive loop (lines 436-478) on a text the client sent:
\* a text without a message field is skipped; otherwise the message is
\* inserted and sent to both participants' chat keys
chat_receive(c, wellformed) ==
  /\ c \in 1..Len(conns)
  /\ conns[c].state = "open" /\ conns[c].handler = "loop"
  /\ \E h \in chats :
       /\ h.conn = c
       /\ wellformed => Len(msgs) < MaxMsgs /\ CanCreate(2)
       /\ msgs' = IF wellformed THEN Append(msgs, Message(h.consultation_id, h.user))
                  ELSE msgs
       /\ active' =
            IF wellformed
            THEN Notified(active, "consultations",
                   <<ChatKey(h.consultation_id,
                             appts[cons[h.consultation_id].appointment_id].patient_id),
                     ChatKey(h.consultation_id,
                             appts[cons[h.consultation_id].appointment_id].doctor_id)>>)
            ELSE active
       /\ tasks' =
            IF wellformed
            THEN Created(tasks, "consultations",
                   <<ChatKey(h.consultation_id,
                             appts[cons[h.consultation_id].appointment_id].patient_id),
                     ChatKey(h.consultation_id,
                             appts[cons[h.consultation_id].appointment_id].doctor_id)>>,
                   "new_message", Len(msgs) + 1)
            ELSE tasks
  /\ UNCHANGED <<appts, cons, resp, reqs, conns, chats, wire, log, replay>>

\* The same turn in two steps.  receive_text returns a text (line 438): one
\* that json.loads rejects, a JSON text without a message field, or one with
\* it; the handler field holds which until the text is dealt with.
TextKinds == {"unparsable", "no_field", "message"}

chat_text(c, kind) ==
  /\ c \in 1..Len(conns)
  /\ conns[c].state = "open" /\ conns[c].handler = "loop"
  /\ \E h \in chats : h.conn = c
  /\ conns' = [conns EXCEPT ![c].handler = kind]
  /\ UNCHANGED <<dbvars, resp, reqs, active, chats, netvars>>

chat_turn_ClosesOnBadText(c) ==
  /\ c \in 1..Len(conns)
  /\ conns[c].handler \in TextKinds
  /\ \E h \in chats :
       /\ h.conn = c
       /\ LET cid == h.consultation_id
              a == appts[cons[cid].appointment_id]
              ks == <<ChatKey(cid, a.patient_id), ChatKey(cid, a.doctor_id)>>
              stored == conns[c].handler = "message"
          IN /\ stored => Len(msgs) < MaxMsgs /\ CanCreate(2)
             /\ msgs' = IF stored THEN Append(msgs, Message(cid, h.user)) ELSE msgs
             /\ active' = IF stored THEN Notified(active, "consultations", ks) ELSE active
             /\ tasks' = IF stored
                         THEN Created(tasks, "consultations", ks, "new_message",
                                      Len(msgs) + 1)
                         ELSE tasks
             /\ conns' = IF stored THEN [conns EXCEPT ![c].handler = "loop"]
                         ELSE [Closed(conns, c) EXCEPT ![c].handler = "done"]
  /\ UNCHANGED <<appts, cons, resp, reqs, chats, wire, log, replay>>

\* lines 439-478: json.loads raising is caught inside the loop (477-478), a
\* text without the field is skipped (441-442); otherwise the message is
\* inserted and sent to both participants' chat keys.  Then the handler
\* waits in receive_text again.
chat_turn(c) ==
  /\ c \in 1..Len(conns)
  /\ conns[c].handler \in TextKinds
  /\ \E h \in chats :
       /\ h.conn = c
       /\ LET cid == h.consultation_id
              a == appts[cons[cid].appointment_id]
              ks == <<ChatKey(cid, a.patient_id), ChatKey(cid, a.doctor_id)>>
              stored == conns[c].handler = "message"
          IN /\ stored => Len(msgs) < MaxMsgs /\ CanCreate(2)
             /\ msgs' = IF stored THEN Append(msgs, Message(cid, h.user)) ELSE msgs
             /\ active' = IF stored THEN Notified(active, "consultations", ks) ELSE active
             /\ tasks' = IF stored
                         THEN Created(tasks, "consultations", ks, "new_message",
                                      Len(msgs) + 1)
                         ELSE tasks
  /\ conns' = [conns EXCEPT ![c].handler = "loop"]
  /\ UNCHANGED <<appts, cons, resp, reqs, chats, wire, log, replay>>

\* ------------------------------------------------------------ event loop
\* The loop starts the created tasks in the order of their creation.  A task
\* runs send_personal_message (lines 39-45): without a socket under the key
\* it is over; otherwise it calls send_text on that socket and waits.
task_start(i) ==
  /\ i \in 1..Len(tasks)
  /\ tasks[i].pc = "ready"
  /\ \A j \in 1..(i - 1) : tasks[j].pc # "ready"
  /\ LET t == tasks[i]
         reg == active[t.mgr]
     IN tasks' = IF t.key \in DOMAIN reg
                 THEN [tasks EXCEPT ![i].pc = "sending", ![i].conn = reg[t.key]]
                 ELSE [tasks EXCEPT ![i].pc = "done"]
  /\ UNCHANGED <<dbvars, resp, reqs, wsvars, wire, log, replay>>

task_write_FailsFanout(i) ==
  /\ i \in 1..Len(tasks)
  /\ tasks[i].pc = "sending"
  /\ LET t == tasks[i] IN
       IF conns[t.conn].state = "open"
       THEN /\ log' = Append(log, Frame(t.conn, t.key, t.type, t.id, i, "", 0, 0))
            /\ active' = active
            /\ tasks' = [tasks EXCEPT ![i].pc = "done"]
       ELSE /\ log' = log
            /\ active' = [active EXCEPT ![t.mgr] = disconnect(@, t.key)]
            /\ tasks' = [x \in 1..Len(tasks) |->
                           IF tasks[x].type = t.type /\ tasks[x].id = t.id
                           THEN [tasks[x] EXCEPT !.pc = "done"] ELSE tasks[x]]
  /\ UNCHANGED <<dbvars, resp, reqs, conns, chats, wire, replay>>

task_write_Propagates(i) ==
  /\ i \in 1..Len(tasks)
  /\ tasks[i].pc = "sending"
  /\ LET t == tasks[i] IN
       IF conns[t.conn].state = "open"
       THEN /\ log' = Append(log, Frame(t.conn, t.key, t.type, t.id, i, "", 0, 0))
            /\ active' = active
            /\ resp' = resp
       ELSE /\ log' = log
            /\ active' = [active EXCEPT ![t.mgr] = disconnect(@, t.key)]
            /\ resp' = [resp EXCEPT !.result = "ServerError"]
  /\ tasks' = [tasks EXCEPT ![i].pc = "done"]
  /\ UNCHANGED <<dbvars, reqs, conns, chats, wire, replay>>

task_write_KeepsKey(i) ==
  /\ i \in 1..Len(tasks)
  /\ tasks[i].pc = "sending"
  /\ LET t == tasks[i] IN
       IF conns[t.conn].state = "open"
       THEN /\ log' = Append(log, Frame(t.conn, t.key, t.type, t.id, i, "", 0, 0))
            /\ active' = active
       ELSE /\ log' = log
            /\ active' = active
  /\ tasks' = [tasks EXCEPT ![i].pc = "done"]
  /\ UNCHANGED <<dbvars, resp, reqs, conns, chats, wire, replay>>

\* send_text returns: the frame is written if the socket is open; otherwise
\* it raised and the key is removed from the registry (lines 42-45).  The
\* tasks waiting in send_text return in any order.
task_write(i) ==
  /\ i \in 1..Len(tasks)
  /\ tasks[i].pc = "sending"
  /\ LET t == tasks[i] IN
       IF conns[t.conn].state = "open"
       THEN /\ log' = Append(log, Frame(t.conn, t.key, t.type, t.id, i, "", 0, 0))
            /\ active' = active
       ELSE /\ log' = log
            /\ active' = [active EXCEPT ![t.mgr] = disconnect(@, t.key)]
  /\ tasks' = [tasks EXCEPT ![i].pc = "done"]
  /\ UNCHANGED <<dbvars, resp, reqs, conns, chats, wire, replay>>

\* ---------------------------------------------------------------- Spec
NoResponse == Response("none", 0, "none")

Init ==
  /\ appts = <<>>
  /\ cons = <<>>
  /\ msgs = <<>>
  /\ resp = NoResponse
  /\ reqs = <<>>
  /\ active = [appointments |-> EmptyRegistry, consultations |-> EmptyRegistry]
  /\ conns = <<>>
  /\ chats = {}
  /\ wire = FALSE
  /\ tasks = <<>>
  /\ log = <<>>
  /\ replay = EmptyRegistry

\* Spec: the lifecycle of appointments and consultations.  Bookings are for
\* one doctor and one time slot and the PUT carries a status only, so that
\* the store stays small; every user acts as requester.
LifecycleDoctors == {"d1", "dx"}
LifecycleTimes == {1}

Book == \E u \in Users, d \in LifecycleDoctors, t \in LifecycleTimes :
  create_appointment(u, d, t)

Cancel == \E u \in Users, id \in ApptIds : cancel_appointment(u, id)

UpdateStatus == \E u \in Users, id \in ApptIds, st \in StatusInputs :
  update_appointment(u, id, st, -1)

Start == \E u \in Users, id \in ApptIds : start_consultation(u, id)

End == \E u \in Users, cid \in ConsIds, n \in Notes : end_consultation(u, cid, n)

Next == Book \/ Cancel \/ UpdateStatus \/ Start \/ End

Spec == Init /\ [][Next]_vars

\* SpecBook: booking and rescheduling over every doctor and time slot, without
\* consultations.
BookAny == \E u \in Users, d \in Doctors \cup InactiveDoctors, t \in Times :
  create_appointment(u, d, t)

Update == \E u \in Users, id \in ApptIds, st \in StatusInputs, tm \in TimeInputs :
  update_appointment(u, id, st, tm)

NextBook == BookAny \/ Cancel \/ Update

SpecBook == Init /\ [][NextBook]_vars

\* ------------------------------------------------------- lifecycle claims
ValidTransitions ==
  {<<"waiting", "in_progress">>, <<"in_progress", "completed">>,
   <<"waiting", "cancelled">>}

ConsultationsOf(id) == {c \in 1..Len(cons) : cons[c].appointment_id = id}

\* C1: every change of an appointment's status is waiting -> in_progress,
\* in_progress -> completed or waiting -> cancelled; a completed or cancelled
\* appointment never changes status again.
C1_OnlyValidTransitions ==
  [][\A i \in 1..Len(appts) :
       appts'[i].status # appts[i].status
         => <<appts[i].status, appts'[i].status>> \in ValidTransitions]_vars

\* C2: at most one waiting or in_progress appointment for any (doctor,
\* scheduled time) pair, in every state reached by book and update.
C2_OneNonTerminalPerSlot ==
  \A i, j \in 1..Len(appts) :
    (/\ i # j
     /\ appts[i].status \in NonTerminal
     /\ appts[j].status \in NonTerminal
     /\ appts[i].doctor_id = appts[j].doctor_id)
      => appts[i].scheduled_time # appts[j].scheduled_time

\* C3: an appointment is in_progress exactly when it has a consultation with
\* ended_at unset, and completed exactly when it has a consultation with
\* ended_at set.
C3_StatusFollowsConsultation ==
  \A i \in 1..Len(appts) :
    /\ appts[i].status = "in_progress"
         <=> (\E c \in ConsultationsOf(i) : ~cons[c].ended_at)
    /\ appts[i].status = "completed"
         <=> (\E c \in ConsultationsOf(i) : cons[c].ended_at)

C7_SecondStartRejected ==
  [][\A u \in Users, id \in ApptIds :
       (resp'.op = "start" /\ start_consultation(u, id) /\ ConsultationsOf(id) # {}) =>
         /\ resp'.result # "ok"
         /\ appts' = appts /\ cons' = cons
         /\ Cardinality({c \in 1..Len(cons') : cons'[c].appointment_id = id}) = 1
         /\ u \in {appts[id].patient_id, appts[id].doctor_id}
              => /\ appts[id].status = "in_progress"
                      => (resp'.result = "InvalidState"
                          /\ appts'[id].status = "in_progress")
                 /\ appts[id].status \in {"waiting", "completed", "cancelled"}
                      => resp'.result \in {"InvalidState", "Conflict"}]_vars

C7_StartAfterStart ==
  \E id \in 1..Len(appts) :
    /\ resp = Response("start", id, "InvalidState")
    /\ appts[id].status = "in_progress"
    /\ Cardinality(ConsultationsOf(id)) = 1

\* SpecRace: cancel and start requests of the two participants that overlap
\* on one waiting appointment.
RaceUsers == {"p1", "d1"}
RaceIds == {1}

InitRace ==
  /\ appts = <<NewAppointment("p1", "d1", 1)>>
  /\ cons = <<>>
  /\ msgs = <<>>
  /\ resp = NoResponse
  /\ reqs = <<>>
  /\ active = [appointments |-> EmptyRegistry, consultations |-> EmptyRegistry]
  /\ conns = <<>>
  /\ chats = {}
  /\ wire = FALSE
  /\ tasks = <<>>
  /\ log = <<>>
  /\ replay = EmptyRegistry

CancelRead == \E u \in RaceUsers, id \in RaceIds : cancel_read(u, id)

CancelCommit == \E i \in 1..MaxReqs : cancel_commit(i)

StartRead == \E u \in RaceUsers, id \in RaceIds : start_read(u, id)

StartReadConsultation == \E i \in 1..MaxReqs : start_read_consultation(i)

StartCommit == \E i \in 1..MaxReqs : start_commit(i)

NextRace ==
  CancelRead \/ CancelCommit \/ StartRead \/ StartReadConsultation \/ StartCommit

SpecRace == InitRace /\ [][NextRace]_vars

Succeeded(op, id) ==
  {i \in 1..Len(reqs) : reqs[i].op = op /\ reqs[i].id = id /\ reqs[i].result = "ok"}

\* C8: of a cancel and a start that overlap on one waiting appointment at
\* most one succeeds: the appointment is never cancelled while it owns a
\* consultation, nor in_progress after a cancel answered with success.
C8_CancelAndStartExclude ==
  \A id \in 1..Len(appts) :
    /\ ~(Succeeded("cancel", id) # {} /\ Succeeded("start", id) # {})
    /\ ~(appts[id].status = "cancelled" /\ ConsultationsOf(id) # {})
    /\ ~(appts[id].status = "in_progress" /\ Succeeded("cancel", id) # {})

\* C9: whatever the interleaving of the start requests, an appointment has
\* at most one consultation record.
C9_OneConsultationPerAppointment ==
  \A id \in 1..Len(appts) : Cardinality(ConsultationsOf(id)) <= 1

\* SpecChat: one booked appointment, its consultation and the chat.
ChatUsers == {"p1", "d1", "p2"}
Tokens == ChatUsers \cup {"bad"}

StartChat == \E u \in ChatUsers, id \in RaceIds : start_consultation(u, id)

EndChat == \E u \in ChatUsers, cid \in ConsIds, n \in Notes : end_consultation(u, cid, n)

CreateMessage == \E u \in ChatUsers, cid \in ConsIds : create_message(u, cid)

ChatOpen == \E tok \in Tokens, cid \in ConsIds : chat_open(tok, cid)

ChatReceive == \E c \in 1..MaxConns, wellformed \in BOOLEAN : chat_receive(c, wellformed)

ClientGone == \E c \in 1..MaxConns : client_gone(c)

HandlerExit ==
  \E c \in 1..MaxConns, exc \in {"WebSocketDisconnect", "RuntimeError"} :
    handler_exit(c, exc)

NextChat ==
  StartChat \/ EndChat \/ CreateMessage \/ ChatOpen \/ ChatReceive \/ ClientGone
    \/ HandlerExit

SpecChat == InitRace /\ [][NextChat]_vars

WsUserIds == {"p1", "doctor_d1"}
NotifyKeys == {"p1", "doctor_d1", "patient_p1"}

WsOpen == \E uid \in WsUserIds : websocket_endpoint(uid)

Notify ==
  \E k \in NotifyKeys :
    /\ active' = Notified(active, "appointments", <<k>>)
    /\ UNCHANGED <<dbvars, resp, reqs, conns, chats, netvars>>

NextWs == WsOpen \/ ClientGone \/ HandlerExit \/ Notify

SpecWs == Init /\ [][NextWs]_vars

LiveFor(cs, k) == {c \in 1..Len(cs) : cs[c].key = k /\ cs[c].state = "open"}

\* C10: a connect for a key that maps to its one live connection c1 closes
\* c1 and leaves the key mapped to the new connection c2: afterwards c2 is
\* the one live connection of the key.
C10_ConnectSupersedes ==
  [][\A uid \in WsUserIds :
       (/\ Len(conns') = Len(conns) + 1
        /\ websocket_endpoint(uid)
        /\ uid \in DOMAIN active.appointments
        /\ LiveFor(conns, uid) = {active.appointments[uid]}) =>
         LET c1 == active.appointments[uid]
             c2 == Len(conns')
         IN /\ conns'[c1].state = "closed"
            /\ active'.appointments[uid] = c2
            /\ conns'[c2].state = "open"
            /\ LiveFor(conns', uid) = {c2}]_vars

C10_Superseded ==
  \E uid \in DOMAIN active.appointments :
    /\ LiveFor(conns, uid) = {active.appointments[uid]}
    /\ \E c1 \in 1..Len(conns) :
         /\ c1 < active.appointments[uid]
         /\ conns[c1].key = uid
         /\ conns[c1].state = "closed"

\* SpecReg: queue websockets that connect, leave and are written to while
\* other coroutines run at the await points of connect.
ConnectAccept == \E uid \in WsUserIds : connect_accept(uid)

ConnectClose == \E c \in 1..MaxConns : connect_close(c)

ConnectRegister == \E c \in 1..MaxConns : connect_register(c)

NextReg ==
  ConnectAccept \/ ConnectClose \/ ConnectRegister \/ ClientGone \/ HandlerExit
    \/ Notify

SpecReg == Init /\ [][NextReg]_vars

Connecting == {c \in 1..Len(conns) : conns[c].handler \in {"accepted", "closing"}}

\* C11: whatever the interleaving of connect, disconnect and send on a key,
\* the accepted and not closed connections of the key are at most the one
\* the registry maps the key to: none is open but unregistered, and no
\* registration is lost.  Stated for the instants at which no connect call
\* is between its accept and its registration.
C11_OneLiveRegistered ==
  Connecting = {} =>
    \A k \in WsUserIds :
      LiveFor(conns, k) \subseteq
        (IF k \in DOMAIN active.appointments THEN {active.appointments[k]} ELSE {})

\* SpecNotify: one booked appointment, the cancel and status requests of its
\* two participants, queue websockets opened under the notification keys and
\* the tasks that carry the notifications.
NotifyUsers == {"p1", "d1"}
NotifyWsIds == {"patient_p1", "doctor_d1"}

InitNotify ==
  /\ appts = <<NewAppointment("p1", "d1", 1)>>
  /\ cons = <<>>
  /\ msgs = <<>>
  /\ resp = NoResponse
  /\ reqs = <<>>
  /\ active = [appointments |-> EmptyRegistry, consultations |-> EmptyRegistry]
  /\ conns = <<>>
  /\ chats = {}
  /\ wire = TRUE
  /\ tasks = <<>>
  /\ log = <<>>
  /\ replay = EmptyRegistry

NotifyCancel == \E u \in NotifyUsers, id \in RaceIds : cancel_appointment(u, id)

NotifyUpdate == \E u \in NotifyUsers, id \in RaceIds :
  update_appointment(u, id, "waiting", -1)

NotifyWsOpen == \E uid \in NotifyWsIds : websocket_endpoint(uid)

TaskStart == \E i \in 1..MaxTasks : task_start(i)

TaskWrite == \E i \in 1..MaxTasks : task_write(i)

NextNotify ==
  NotifyCancel \/ NotifyUpdate \/ NotifyWsOpen \/ ClientGone \/ TaskStart
    \/ TaskWrite

SpecNotify == InitNotify /\ [][NextNotify]_vars

\* SpecOutcome: every request that notifies, made by the two participants of
\* one booked appointment, with queue websockets under the doctor's key.
OutcomeWsIds == {"doctor_d1"}
OutcomeIds == {1}

OutcomeBook == \E u \in NotifyUsers, t \in Times : create_appointment(u, "d1", t)

OutcomeCancel == \E u \in NotifyUsers, id \in OutcomeIds : cancel_appointment(u, id)

OutcomeUpdate == \E u \in NotifyUsers, id \in OutcomeIds :
  update_appointment(u, id, "waiting", -1)

OutcomeStart == \E u \in NotifyUsers, id \in OutcomeIds : start_consultation(u, id)

OutcomeEnd == \E u \in NotifyUsers, cid \in OutcomeIds :
  end_consultation(u, cid, "stable")

OutcomeMessage == \E u \in NotifyUsers, cid \in OutcomeIds : create_message(u, cid)

OutcomeWsOpen == \E uid \in OutcomeWsIds : websocket_endpoint(uid)

NextOutcome ==
  OutcomeBook \/ OutcomeCancel \/ OutcomeUpdate \/ OutcomeStart \/ OutcomeEnd
    \/ OutcomeMessage \/ OutcomeWsOpen \/ ClientGone \/ TaskStart \/ TaskWrite

SpecOutcome == InitNotify /\ [][NextOutcome]_vars

\* SpecStarted: bookings and starts with the queue websockets of the two
\* participants, opened under the user id or under the doctor's key.
StartedWsIds == {"p1", "d1", "doctor_d1"}

StartedWsOpen == \E uid \in StartedWsIds : websocket_endpoint(uid)

NextStarted ==
  OutcomeBook \/ OutcomeStart \/ StartedWsOpen \/ ClientGone \/ TaskStart
    \/ TaskWrite

SpecStarted == InitNotify /\ [][NextStarted]_vars

\* ------------------------------------------------------ notification claims
\* the frames that tasks wrote, as positions of log
TaskFrames == {n \in 1..Len(log) : log[n].task > 0}

Addressee(k) ==
  CHOOSE u \in Users \cup InactiveDoctors : k \in {PatientKey(u), DoctorKey(u), UserKey(u)}

\* the live queue websockets of user u: open, registered in the manager of
\* the appointments module, under the user id or under one of u's keys
QueueConnsOf(u) ==
  {c \in 1..Len(conns) :
     /\ conns[c].mgr = "appointments"
     /\ conns[c].key \in {u, PatientKey(u), DoctorKey(u)}
     /\ conns[c].state = "open"
     /\ conns[c].key \in DOMAIN active.appointments
     /\ active.appointments[conns[c].key] = c}

\* C17: when the send of a consultation_started or new_appointment event
\* finishes while the addressed participant holds a live queue websocket,
\* the event has been written to a live queue websocket of that participant.
C17_QueueChannelReceives ==
  [][\A j \in 1..Len(tasks) :
       (/\ tasks[j].type \in {"consultation_started", "new_appointment"}
        /\ tasks[j].pc # "done" /\ tasks'[j].pc = "done"
        /\ QueueConnsOf(Addressee(tasks[j].key)) # {})
         => \E c \in QueueConnsOf(Addressee(tasks[j].key)) :
              \E n \in 1..Len(log') : log'[n].task = j /\ log'[n].conn = c]_vars

\* SpecChatWire: the consultation of one booked appointment, the messages of
\* its two participants and their chat websockets, with the frames followed.
ChatTokens == {"p1", "d1"}

ChatWireOpen == \E tok \in ChatTokens, cid \in OutcomeIds : chat_open(tok, cid)

ChatReplay == \E c \in 1..MaxConns : chat_replay(c)

NextChatWire ==
  OutcomeStart \/ OutcomeMessage \/ ChatWireOpen \/ ChatReplay \/ ChatReceive
    \/ TaskStart \/ TaskWrite

SpecChatWire == InitNotify /\ [][NextChatWire]_vars

\* every key that addresses user u
KeysOf(u) ==
  {u, PatientKey(u), DoctorKey(u), UserKey(u)} \cup {ChatKey(cid, u) : cid \in ConsIds}

HistoryFrames(c) ==
  SelectSeq(log, LAMBDA f : f.conn = c /\ f.type = "history_message")

RECURSIVE Ids(_)
Ids(fs) == IF fs = <<>> THEN <<>> ELSE <<Head(fs).id>> \o Ids(Tail(fs))

WaitingOf(d) ==
  {i \in 1..Len(appts) : appts[i].doctor_id = d /\ appts[i].status = "waiting"}

\* C18: for every doctor, along the waiting appointments in the order of
\* their scheduled times the positions start at 1 and increase strictly: no
\* two waiting appointments of the doctor have the same position.
C18_PositionsStrictlyIncrease ==
  \A d \in Doctors \cup InactiveDoctors :
    /\ WaitingOf(d) # {} => \E i \in WaitingOf(d) : position(appts[i]) = 1
    /\ \A i, j \in WaitingOf(d) :
         i # j =>
           /\ position(appts[i]) # position(appts[j])
           /\ appts[i].scheduled_time < appts[j].scheduled_time
                => position(appts[i]) < position(appts[j])

\* SpecQueue: the queue snapshot over every store of at most MaxAppts
\* appointments; any such store is reached by bookings and PUTs.
StoredStatus == AppointmentStatus \cup {"null"}

Stores ==
  UNION {[1..n -> [patient_id : Patients, doctor_id : Doctors,
                   scheduled_time : Times, status : StoredStatus]] : n \in 0..MaxAppts}

InitQueue ==
  /\ appts \in Stores
  /\ cons = <<>>
  /\ msgs = <<>>
  /\ resp = NoResponse
  /\ reqs = <<>>
  /\ active = [appointments |-> EmptyRegistry, consultations |-> EmptyRegistry]
  /\ conns = <<>>
  /\ chats = {}
  /\ wire = TRUE
  /\ tasks = <<>>
  /\ log = <<>>
  /\ replay = EmptyRegistry

QueueWsOpen == \E uid \in Patients : websocket_endpoint(uid)

NextQueue == QueueWsOpen \/ ClientGone

SpecQueue == InitQueue /\ [][NextQueue]_vars

\* the appointments among the first n that are waiting, of the doctor of a
\* and scheduled strictly earlier than a
RECURSIVE EarlierWaiting(_, _)
EarlierWaiting(a, n) ==
  IF n = 0 THEN 0
  ELSE EarlierWaiting(a, n - 1)
         + (IF /\ appts[n].doctor_id = a.doctor_id
               /\ appts[n].status = "waiting"
               /\ appts[n].scheduled_time < a.scheduled_time
            THEN 1 ELSE 0)

QueueValuesRight ==
  /\ \A n \in 1..Len(log) :
       (log[n].type = "appointment_update" /\ log[n].key \in Patients) =>
         /\ log[n].current_position
              = 1 + EarlierWaiting(appts[log[n].id], Len(appts))
         /\ log[n].estimated_time = 15 * log[n].current_position
  /\ \A i \in 1..Len(appts) :
       /\ get_queue_position(i) = 1 + EarlierWaiting(appts[i], Len(appts))
       /\ get_estimated_wait_time(i) = 15 * get_queue_position(i)
       /\ position(appts[i]) = get_queue_position(i)
       /\ estimated_time(position(appts[i])) = get_estimated_wait_time(i)

\* C19: the position of an appointment is 1 plus the number of waiting
\* appointments of the same doctor scheduled strictly earlier, the estimated
\* wait is 15 times the position, the service functions and the snapshot of
\* the queue websocket give the same values, and computing them changes no
\* record.
C19_PositionAndWait ==
  [][QueueValuesRight' /\ dbvars' = dbvars]_vars

\* a snapshot frame with position 2 and an estimated wait of 30
C19_SecondInQueue ==
  \E n \in 1..Len(log) :
    /\ log[n].type = "appointment_update"
    /\ log[n].current_position = 2
    /\ log[n].estimated_time = 30

\* C20: no appointment_update frame carries a position and an estimated wait
\* computed for an appointment that is not waiting.
C20_EstimatorOnlyForWaiting ==
  \A n \in 1..Len(log) :
    (log[n].type = "appointment_update" /\ log[n].current_position > 0)
      => log[n].status = "waiting"

\* ------------------------------------------------------ permission claims
\* C21: a cancel asked by a requester who is neither the patient nor the
\* doctor of the appointment (another patient, another doctor, an admin)
\* fails with Forbidden and leaves the status of the appointment unchanged.
C21_CancelForbiddenForOthers ==
  [][\A u \in Users, id \in ApptIds :
       (/\ resp'.op = "cancel" /\ cancel_appointment(u, id)
        /\ HasAppt(id)
        /\ u \notin {appts[id].patient_id, appts[id].doctor_id})
         => /\ resp'.result = "Forbidden"
            /\ appts'[id].status = appts[id].status]_vars

\* C22: no PUT that carries a status and is made by a requester with the
\* patient role leaves the appointment in a status other than cancelled: a
\* patient who asks for another status, or acts on an appointment of another
\* patient, gets Forbidden and the appointment is unchanged.
C22_PatientOnlyCancels ==
  [][\A u \in Patients, id \in ApptIds, st \in StatusInputs \ {"unset"} :
       (resp'.op = "update" /\ update_appointment(u, id, st, -1) /\ HasAppt(id)) =>
         /\ resp'.result = "ok" => appts'[id].status = "cancelled"
         /\ appts'[id].status # appts[id].status => appts'[id].status = "cancelled"
         /\ (st \in AppointmentStatus \ {"cancelled"} \/ appts[id].patient_id # u)
              => resp'.result = "Forbidden" /\ appts' = appts]_vars

\* C23: an end asked by any requester other than the doctor of the
\* appointment that owns the consultation fails with Forbidden and leaves
\* ended_at and notes of the consultation and the status of the appointment
\* unchanged.
C23_EndForbiddenForOthers ==
  [][\A u \in Users, cid \in ConsIds, n \in Notes :
       (/\ resp'.op = "end" /\ end_consultation(u, cid, n)
        /\ HasCons(cid)
        /\ u # appts[cons[cid].appointment_id].doctor_id)
         => /\ resp'.result = "Forbidden"
            /\ cons'[cid].ended_at = cons[cid].ended_at
            /\ cons'[cid].notes = cons[cid].notes
            /\ appts'[cons[cid].appointment_id].status
                 = appts[cons[cid].appointment_id].status]_vars

\* an end on a running consultation was refused
C23_EndRefusedOnRunning ==
  /\ resp.op = "end" /\ resp.result = "Forbidden"
  /\ HasCons(resp.id)
  /\ ~cons[resp.id].ended_at
  /\ appts[cons[resp.id].appointment_id].status = "in_progress"

\* SpecEmit: the bookings, starts and ends of every user, with the created
\* notification tasks followed; no websocket is open.
EmitBook == \E u \in Users, d \in Doctors \cup InactiveDoctors, t \in Times :
  create_appointment(u, d, t)

EmitStart == \E u \in Users, id \in ApptIds : start_consultation(u, id)

EmitEnd == \E u \in Users, cid \in ConsIds, n \in Notes : end_consultation(u, cid, n)

NextEmit == EmitBook \/ EmitStart \/ EmitEnd \/ TaskStart

SpecEmit == InitNotify /\ [][NextEmit]_vars

\* the tasks that s has and that tk, a prefix of s, has not
NewTasks(tk, s) == SubSeq(s, Len(tk) + 1, Len(s))

RaceStart == \E u \in RaceUsers, id \in RaceIds : start_consultation(u, id)

EndRead == \E u \in RaceUsers, cid \in RaceIds, n \in Notes : end_read(u, cid, n)

EndCommit == \E i \in 1..MaxReqs : end_commit(i)

NextEndRace == RaceStart \/ EndRead \/ EndCommit

SpecEndRace == InitRace /\ [][NextEndRace]_vars

\* C25: ended_at of a consultation is set at most once.  Each end that
\* answers with success has assigned ended_at; so once a consultation is
\* ended, no step changes its ended_at or its notes, and every end request of
\* its doctor that answers afterwards, whether it came later or overlapped
\* the first, answers InvalidState.
C25_EndedAtSetOnce ==
  [][\A cid \in 1..Len(cons) :
       cons[cid].ended_at =>
         /\ cons'[cid].ended_at = cons[cid].ended_at
         /\ cons'[cid].notes = cons[cid].notes
         /\ \A i \in 1..Len(reqs') :
              (/\ reqs'[i].op = "end" /\ reqs'[i].id = cid
               /\ reqs'[i].user = appts[cons[cid].appointment_id].doctor_id
               /\ reqs'[i].result # "pending"
               /\ (i > Len(reqs) \/ reqs[i].result = "pending"))
                => reqs'[i].result = "InvalidState"]_vars

\* SpecChatAuth: the consultation of one booked appointment, its messages,
\* and chat websockets opened with the token of a participant, of another
\* patient, or with a text that is no token; the frames are followed.
ChatAuthOpen == \E tok \in Tokens, cid \in ConsIds : chat_open(tok, cid)

NextChatAuth ==
  OutcomeStart \/ OutcomeMessage \/ ChatAuthOpen \/ ChatReplay \/ ChatReceive
    \/ TaskStart \/ TaskWrite

SpecChatAuth == InitNotify /\ [][NextChatAuth]_vars

\* tok is a valid token of the patient or the doctor of consultation cid
Participant(tok, cid) ==
  /\ tok \in Users
  /\ HasCons(cid)
  /\ tok \in {appts[cons[cid].appointment_id].patient_id,
              appts[cons[cid].appointment_id].doctor_id}

\* the chat websockets whose first text was the token of a participant
Authenticated ==
  {h.conn : h \in {x \in chats : Participant(x.user, x.consultation_id)}}

\* C27: a chat websocket is registered under chat_{consultation}_{user}, is
\* sent history and appends messages only if its first text was a valid
\* token of the patient or the doctor of the consultation's appointment; a
\* websocket that fails the authentication or the participation check is
\* closed, is not registered, receives no frame and stores no message.
C27_ChatOnlyForParticipants ==
  [][/\ \A tok \in Tokens, cid \in ConsIds :
          (Len(conns') = Len(conns) + 1 /\ chat_open(tok, cid)) =>
            LET c == Len(conns') IN
            IF Participant(tok, cid)
            THEN /\ ChatKey(cid, tok) \in DOMAIN active'.consultations
                 /\ active'.consultations[ChatKey(cid, tok)] = c
                 /\ conns'[c].state = "open"
            ELSE /\ conns'[c].state = "closed" /\ conns'[c].handler = "done"
                 /\ active' = active
                 /\ log' = log /\ msgs' = msgs /\ tasks' = tasks
     /\ \A k \in DOMAIN active'.consultations :
          active'.consultations[k] \in Authenticated'
     /\ \A n \in 1..Len(log') : log'[n].conn \in Authenticated'
     /\ Len(msgs') > Len(msgs) =>
          Participant(msgs'[Len(msgs')].sender_id, msgs'[Len(msgs')].consultation_id)
     /\ \A c \in 1..Len(conns), w \in BOOLEAN :
          (chat_receive(c, w) /\ msgs' # msgs) => c \in Authenticated]_vars

\* a refused websocket next to a registered one that was sent history
C27_RefusedNextToRegistered ==
  /\ \E c \in 1..Len(conns) :
       conns[c].state = "closed" /\ conns[c].key = "" /\ c \notin Authenticated
  /\ \E h \in chats :
       /\ ChatKey(h.consultation_id, h.user) \in DOMAIN active.consultations
       /\ \E n \in 1..Len(log) : log[n].conn = h.conn /\ log[n].type = "history_message"

\* ------------------------------------------------------- registry claims
\* C28: a send for a key without a registered connection changes nothing and
\* raises nothing; a send whose write fails removes the mapping of the key,
\* and of no other key, and the error reaches no response; a send whose
\* write succeeds leaves the registry unchanged.
C28_SendOutcomes ==
  [][\A j \in 1..Len(tasks) :
       tasks'[j].pc # tasks[j].pc =>
         LET t == tasks[j]
             reg == active[t.mgr]
         IN /\ resp' = resp /\ dbvars' = dbvars /\ conns' = conns
            /\ tasks[j].pc = "ready" =>
                 /\ active' = active /\ log' = log
                 /\ t.key \notin DOMAIN reg => tasks'[j].pc = "done"
            /\ tasks[j].pc = "sending" =>
                 /\ tasks'[j].pc = "done"
                 /\ IF conns[t.conn].state = "open"
                    THEN active' = active /\ Len(log') = Len(log) + 1
                    ELSE /\ log' = log
                         /\ active' = [active EXCEPT ![t.mgr] =
                                         [x \in DOMAIN reg \ {t.key} |-> reg[x]]]]_vars

\* one send found no connection, one failed on its socket and its key is no
\* longer registered, and one was written to the socket still registered
C28_AllThreeOutcomes ==
  /\ \E j \in 1..Len(tasks) : tasks[j].pc = "done" /\ tasks[j].conn = 0
  /\ \E j \in 1..Len(tasks) :
       /\ tasks[j].pc = "done" /\ tasks[j].conn # 0
       /\ \A n \in 1..Len(log) : log[n].task # j
       /\ tasks[j].key \notin DOMAIN active[tasks[j].mgr]
  /\ \E j \in 1..Len(tasks) :
       /\ \E n \in 1..Len(log) : log[n].task = j
       /\ tasks[j].key \in DOMAIN active[tasks[j].mgr]
       /\ active[tasks[j].mgr][tasks[j].key] = tasks[j].conn

\* C29: disconnect(key) removes the mapping of the key if there is one and
\* changes nothing otherwise, applied twice it gives the registry it gives
\* applied once, and it changes the mapping of no other key.  Stated on the
\* steps in which a handler whose client left unregisters its key.
C29_DisconnectIdempotent ==
  [][\A c \in 1..Len(conns) :
       (conns[c].handler = "loop" /\ conns'[c].handler = "done"
          /\ conns[c].state = "gone") =>
         LET reg == active.appointments
             k == conns[c].key
             once == active'.appointments
         IN /\ k \notin DOMAIN once
            /\ DOMAIN once = DOMAIN reg \ {k}
            /\ \A x \in DOMAIN once : once[x] = reg[x]
            /\ k \notin DOMAIN reg => once = reg
            /\ disconnect(once, k) = once
            /\ disconnect(disconnect(reg, k), k) = disconnect(reg, k)]_vars

\* a handler whose client left has unregistered its key and another key is
\* still registered
C29_SecondDisconnect ==
  \E c \in 1..Len(conns) :
    /\ conns[c].handler = "done" /\ conns[c].state = "gone"
    /\ conns[c].key \notin DOMAIN active.appointments
    /\ active.appointments # EmptyRegistry

\* SpecFail: every request of every user on a store that starts with one
\* booked appointment; bookings are for one doctor and one time slot as in
\* Spec.  The created notification tasks are recorded and not run.
FailCancel == \E u \in Users, id \in ApptIds : cancel_appointment(u, id)

FailUpdate == \E u \in Users, id \in ApptIds, st \in StatusInputs :
  update_appointment(u, id, st, -1)

FailMessage == \E u \in Users, cid \in ConsIds : create_message(u, cid)

NextFail ==
  Book \/ FailCancel \/ FailUpdate \/ EmitStart \/ EmitEnd \/ FailMessage

SpecFail == InitNotify /\ [][NextFail]_vars

Failures == {"NotFound", "Forbidden", "InvalidState", "Conflict"}

NothingDone == dbvars' = dbvars /\ tasks' = tasks /\ active' = active /\ log' = log

\* C30: a book, cancel, update, start, end or message request that fails
\* with NotFound, Forbidden, InvalidState or Conflict leaves every
\* appointment, consultation and message as it was and creates no
\* notification.
C30_FailureChangesNothing ==
  [][/\ \A u \in Users, d \in LifecycleDoctors, t \in LifecycleTimes :
          (resp'.op = "book" /\ create_appointment(u, d, t)
             /\ resp'.result \in Failures) => NothingDone
     /\ \A u \in Users, id \in ApptIds :
          /\ (resp'.op = "cancel" /\ cancel_appointment(u, id)
                /\ resp'.result \in Failures) => NothingDone
          /\ (resp'.op = "start" /\ start_consultation(u, id)
                /\ resp'.result \in Failures) => NothingDone
          /\ \A st \in StatusInputs :
               (resp'.op = "update" /\ update_appointment(u, id, st, -1)
                  /\ resp'.result \in Failures) => NothingDone
     /\ \A u \in Users, cid \in ConsIds :
          /\ (resp'.op = "message" /\ create_message(u, cid)
                /\ resp'.result \in Failures) => NothingDone
          /\ \A n \in Notes :
               (resp'.op = "end" /\ end_consultation(u, cid, n)
                  /\ resp'.result \in Failures) => NothingDone]_vars

\* a cancel of an appointment in consultation was refused with InvalidState:
\* the appointment is still in_progress and its consultation is running
C30_RefusedCancelLeftInProgress ==
  \E id \in 1..Len(appts) :
    /\ resp = Response("cancel", id, "InvalidState")
    /\ appts[id].status = "in_progress"
    /\ \E c \in ConsultationsOf(id) : ~cons[c].ended_at
    /\ \A j \in 1..Len(tasks) : tasks[j].type # "appointment_cancelled"

\* ------------------------------------------------------- status claims
\* C31: in every reachable state the status of every appointment is one of
\* waiting, in_progress, completed and cancelled, never null, also after a
\* PUT that carries a null status or a scheduled time only.
C31_StatusNeverNull ==
  \A i \in 1..Len(appts) : appts[i].status \in AppointmentStatus

\* SpecDispatch: one booked appointment; the cancel and start requests of its
\* two participants, which overlap, the end and message requests, queue
\* websockets under the notification keys, and the notification tasks.
NextDispatch ==
  CancelRead \/ CancelCommit \/ StartRead \/ StartReadConsultation \/ StartCommit
    \/ OutcomeEnd \/ OutcomeMessage \/ NotifyWsOpen \/ TaskStart \/ TaskWrite

SpecDispatch == InitNotify /\ [][NextDispatch]_vars

ChatText == \E c \in 1..MaxConns, kind \in TextKinds : chat_text(c, kind)

ChatTurn == \E c \in 1..MaxConns : chat_turn(c)

NextChatInput ==
  OutcomeStart \/ ChatWireOpen \/ ChatText \/ ChatTurn \/ TaskStart \/ TaskWrite

SpecChatInput == InitNotify /\ [][NextChatInput]_vars

StampUsers == {"p1", "d1", "adm"}

StampMessage == \E u \in StampUsers, cid \in ConsIds, ts \in Times :
  create_message_at(u, cid, ts)

StampGet == \E u \in StampUsers, cid \in ConsIds : get_consultation_messages(u, cid)

StampEnd == \E u \in RaceUsers, cid \in RaceIds, n \in Notes : end_consultation(u, cid, n)

NextStamps == RaceStart \/ StampMessage \/ StampGet \/ StampEnd

SpecStamps == InitRace /\ [][NextStamps]_vars

\* C34: the messages returned for a consultation are in the order of their
\* timestamps, messages with equal timestamps in the order of their
\* insertion; so a message appended last is returned last.
C34_TimestampThenInsertion ==
  (resp.op = "messages" /\ resp.result = "ok") =>
    /\ \A a, b \in 1..Len(resp.rows) :
         a < b =>
           /\ msgs[resp.rows[a]].timestamp <= msgs[resp.rows[b]].timestamp
           /\ msgs[resp.rows[a]].timestamp = msgs[resp.rows[b]].timestamp
                => resp.rows[a] < resp.rows[b]
    /\ resp.rows # <<>> =>
         resp.rows[Len(resp.rows)] = Len(msgs)


\* C35: the registry never maps a key to a connection the server has closed,
\* so no send looks such a connection up: a connection closed by supersede
\* or after a server error has its mapping removed or replaced first.
C35_NoClosedRegistered ==
  \A m \in DOMAIN active : \A k \in DOMAIN active[m] :
    conns[active[m][k]].state # "closed"


\* C36: a key leaves the registry only on behalf of the connection it is
\* registered to: the handler that unregisters is the handler of that
\* connection, and a connection that is registered and open stays
\* registered when the handler of an older connection of the key returns or
\* a write to the older connection fails.
C36_RemovedForRegisteredOnly ==
  [][\A m \in DOMAIN active : \A k \in DOMAIN active[m] :
       k \notin DOMAIN active'[m] =>
         /\ conns[active[m][k]].state # "open"
         /\ \A c \in 1..Len(conns) :
              (conns[c].handler = "loop" /\ conns'[c].handler = "done")
                => c = active[m][k]]_vars


\* the messages written to the socket c as history_message or new_message,
\* in the order of the writes
MessageFrames(c) ==
  SelectSeq(log, LAMBDA f : f.conn = c /\ f.type \in {"history_message", "new_message"})

BookRaceDoctors == {"d1", "dx"}

BookRead == \E u \in Patients, d \in BookRaceDoctors, t \in Times : book_read(u, d, t)

BookCommit == \E i \in 1..MaxReqs : book_commit(i)

NextBookRace == BookRead \/ BookCommit

SpecBookRace == Init /\ [][NextBookRace]_vars

\* C38: of two book requests for the same doctor and the same scheduled
\* time that run concurrently at most one creates an appointment; the other
\* fails with Conflict.
C38_OneOfTwoBooks ==
  \A i, j \in 1..Len(reqs) :
    (/\ i # j
     /\ reqs[i].op = "book" /\ reqs[j].op = "book"
     /\ reqs[i].doctor = reqs[j].doctor /\ reqs[i].time = reqs[j].time
     /\ reqs[i].pc = "done" /\ reqs[j].pc = "done"
     /\ reqs[i].result = "ok") =>
      /\ reqs[j].result = "Conflict"
      /\ ~\E a, b \in 1..Len(appts) :
            /\ a # b
            /\ appts[a].doctor_id = appts[b].doctor_id
            /\ appts[a].scheduled_time = appts[b].scheduled_time
            /\ appts[a].status = "waiting" /\ appts[b].status = "waiting"


\* C39: a PUT by a doctor who is not the doctor of the appointment is
\* refused and leaves the appointment as it was, whether it carries a
\* status or a scheduled time.
C39_OtherDoctorChangesNothing ==
  [][\A u \in Doctors, id \in ApptIds, st \in StatusInputs, tm \in TimeInputs :
       (/\ HasAppt(id)
        /\ appts[id].doctor_id # u
        /\ update_appointment(u, id, st, tm)) =>
         /\ appts' = appts
         /\ resp'.result = "Forbidden"]_vars


\* SpecLive: clients that open the queue websocket of a patient, over one
\* booked appointment.  A client is the user it holds a token of, or
\* "anonymous".  websocket_endpoint takes the socket, the path parameter and
\* the database session (lines 280-284) and reads no credential, so the
\* request of every client is the same step.
LiveClients == Patients \cup {"anonymous"}

websocket_request(client, uid) ==
  /\ client \in LiveClients
  /\ websocket_endpoint(uid)

LiveOpen == \E client \in LiveClients, uid \in Patients : websocket_request(client, uid)

NextLive == LiveOpen \/ ClientGone \/ HandlerExit

SpecLive == InitNotify /\ [][NextLive]_vars

\* C40: a client that is not authenticated as the user named in the path of
\* the queue websocket gets no registration under that user's key, no
\* snapshot of that user's appointments, and closes no connection of that
\* user.
C40_OnlyAuthenticatedRegisters ==
  [][\A client \in LiveClients, uid \in Patients :
       (client # uid /\ websocket_request(client, uid)) =>
         /\ active'.appointments = active.appointments
         /\ \A c \in 1..Len(conns) : conns'[c].state = conns[c].state
         /\ log' = log]_vars

====
